---- MODULE Spec2Model ----
(***************************************************************************)
(* A model of document_processor/docling_processor.py: the DoclingProcessor *)
(* wrapper around the external document-conversion engine.                 *)
(*                                                                         *)
(* The external engine (DocumentConverter, DoclingDocument, HybridChunker) *)
(* is the environment: whether a construction or a conversion raises, and  *)
(* what document object comes back, are inputs drawn from small sets.      *)
(* Strings are TLA+ strings; Len is Python's len on ASCII text.            *)
(***************************************************************************)
EXTENDS Integers, Sequences, FiniteSets, TLC

VARIABLES
    config,           \* DoclingConfig (the fields process_document reads)
    converter,        \* self.converter: the handle, [mode, by]
    ocr_initialized,  \* self.ocr_initialized
    chunker,          \* self.chunker: TRUE when a HybridChunker is installed
    hist,             \* observation: history of the calls made so far
    last,             \* observation: what the last process_document call did
    threads,          \* concurrent calls: each thread's position and locals
    dir,              \* cleanup_temp_files: the entries of output_dir
    cleanup,          \* cleanup_temp_files: observation of the last call
    export            \* export_to_markdown: observation of the last call

vars == <<config, converter, ocr_initialized, chunker, hist, last,
          threads, dir, cleanup, export>>

----------------------------------------------------------------------------
(* Bounds *)

MaxCalls == 3          \* process_document calls in one behaviour of Spec
MaxTables == 2         \* tables of a converted document
MaxImages == 2         \* images of a converted document
MaxEntries == 3        \* entries of a directory cleanup_temp_files is run on
MaxSections == 2       \* sections of a structure given to export_to_markdown
MaxChunks == 1         \* chunks the chunker returns

(* Program constants *)

max_file_size_mb_default == 500

----------------------------------------------------------------------------
(* Values *)

None == "<None>"               \* Python's None
NoResult == "<raised>"         \* the call raised: no DocumentStructure

Raises == "<raises>"           \* the external operation raises
Caller == "caller"             \* the one caller of the sequential model
Ctor == "__init__"             \* the constructor, as installer of a handle

(* An object of the external library is a function from the names of the   *)
(* attributes it has to their values: hasattr and getattr with a default.  *)
HasAttr(obj, name) == name \in DOMAIN obj
GetAttr(obj, name, default) == IF HasAttr(obj, name) THEN obj[name] ELSE default
NoAttr == "<no attribute>"
NoAttrs == [n \in {} |-> n]
Opt(name, values) == {NoAttrs} \cup {[n \in {name} |-> v] : v \in values}

(* Python's `a or b` on strings. *)
StrOr(a, b) == IF a # "" THEN a ELSE b

Handle(mode, who) == [mode |-> mode, by |-> who]

----------------------------------------------------------------------------
(* Converter handle: _initialize_base_converter, _initialize_ocr_converter *)

(* Lines 150-162: a DocumentConverter whose pipeline options have do_ocr =  *)
(* False, built by `who`.                                                  *)
BaseHandle(who) == Handle("base", who)

(* The OCR pipeline options with do_ocr left False. *)
MutOcrHandleNoOcr(who) == Handle("base", who)

(* Lines 174-186: a DocumentConverter whose pipeline options have do_ocr =  *)
(* True, built by `who`.                                                   *)
OcrHandle(who) == Handle("ocr", who)

(* _initialize_base_converter: build a DocumentConverter with do_ocr =     *)
(* False and store it in self.converter; a failure of the construction is  *)
(* logged and re-raised, and self.converter keeps its old value.           *)
(* An outcome is [converter, ocr_initialized, raised, installs, baseCalls, *)
(* ocrCalls, ocrFailed]: the fields after the call, whether it raised, how *)
(* many handles were installed and initializers entered, and whether the   *)
(* construction of an OCR handle failed.                                   *)
initialize_base_converter(conv, flag, baseFails, who) ==
    IF baseFails
    THEN [converter |-> conv, ocr_initialized |-> flag, raised |-> TRUE,
          installs |-> 0, baseCalls |-> 1, ocrCalls |-> 0,
          ocrFailed |-> FALSE]
    ELSE [converter |-> BaseHandle(who), ocr_initialized |-> flag,
          raised |-> FALSE, installs |-> 1, baseCalls |-> 1, ocrCalls |-> 0,
          ocrFailed |-> FALSE]

(* The flag set before the construction: a failure leaves it set. *)
MutInitializeOcrConverterFlagFirst(conv, flag, ocrFails, baseFails, who) ==
    IF ~ocrFails
    THEN [converter |-> OcrHandle(who), ocr_initialized |-> TRUE,
          raised |-> FALSE, installs |-> 1, baseCalls |-> 0, ocrCalls |-> 1,
          ocrFailed |-> FALSE]
    ELSE LET fb == initialize_base_converter(conv, TRUE, baseFails, who)
         IN  [fb EXCEPT !.raised = TRUE, !.ocrCalls = 1, !.ocrFailed = TRUE]

(* _initialize_ocr_converter: build a DocumentConverter with do_ocr = True, *)
(* store it, then set ocr_initialized. On a failure of the construction    *)
(* neither assignment happened; the handler falls back to                  *)
(* _initialize_base_converter (which may raise itself) and re-raises.      *)
initialize_ocr_converter(conv, flag, ocrFails, baseFails, who) ==
    IF ~ocrFails
    THEN [converter |-> OcrHandle(who), ocr_initialized |-> TRUE,
          raised |-> FALSE, installs |-> 1, baseCalls |-> 0, ocrCalls |-> 1,
          ocrFailed |-> FALSE]
    ELSE LET fb == initialize_base_converter(conv, flag, baseFails, who)
         IN  [fb EXCEPT !.raised = TRUE, !.ocrCalls = 1, !.ocrFailed = TRUE]

(* The re-initialization without its elif branch: no switch back to the   *)
(* base handle.                                                            *)
MutEnsureConverterNoSwitchBack(conv, flag, use_ocr, ocrFails, baseFails, who) ==
    IF use_ocr /\ ~flag
    THEN initialize_ocr_converter(conv, flag, ocrFails, baseFails, who)
    ELSE [converter |-> conv, ocr_initialized |-> flag, raised |-> FALSE,
          installs |-> 0, baseCalls |-> 0, ocrCalls |-> 0,
          ocrFailed |-> FALSE]

(* process_document, lines 259-265: the conditional re-initialization.     *)
EnsureConverter(conv, flag, use_ocr, ocrFails, baseFails, who) ==
    IF use_ocr /\ ~flag
    THEN initialize_ocr_converter(conv, flag, ocrFails, baseFails, who)
    ELSE IF ~use_ocr /\ flag
    THEN initialize_base_converter(conv, flag, baseFails, who)
    ELSE [converter |-> conv, ocr_initialized |-> flag, raised |-> FALSE,
          installs |-> 0, baseCalls |-> 0, ocrCalls |-> 0,
          ocrFailed |-> FALSE]

----------------------------------------------------------------------------
(* Extraction: _extract_table_content, _extract_document_structure *)

(* _extract_table_content: the table's data with its rows and columns, or  *)
(* its string representation; any exception is logged as a warning and an  *)
(* error entry is returned instead. value is the returned dict, failed     *)
(* tells whether an exception was caught.                                  *)
extract_table_content(table) ==
    IF table.access = Raises
    THEN [value |-> [type |-> "table", error |-> "err"], failed |-> TRUE]
    ELSE IF HasAttr(table, "data")
    THEN [value |-> [type |-> "table", data |-> table.data,
                     rows |-> GetAttr(table, "rows", 0),
                     columns |-> GetAttr(table, "columns", 0)],
          failed |-> FALSE]
    ELSE [value |-> [type |-> "table", content |-> table.repr,
                     extracted_method |-> "string_representation"],
          failed |-> FALSE]

(* str(Path(output_dir) / f"table_{i}.json"), and the same for images. *)
TableFile(output_dir, i) == output_dir \o "/table_" \o ToString(i) \o ".json"
ImageFile(output_dir, i) == output_dir \o "/image_" \o ToString(i) \o ".png"

(* The loop with a failed write logged and skipped instead of raised. *)
RECURSIVE MutExtractTablesSkipFailedWrite(_, _, _, _, _, _)
MutExtractTablesSkipFailedWrite(tables, i, output_dir, writeFailsAt, afterOpen, acc) ==
    IF i = Len(tables) THEN acc
    ELSE LET table == tables[i + 1]
             content == extract_table_content(table)
             table_data == [id |-> i, page |-> GetAttr(table, "page", 1),
                            content |-> content.value,
                            bbox |-> GetAttr(table, "bbox", None)]
             failures == acc.failures \cup
                         (IF content.failed THEN {"table_content"} ELSE {})
         IN  MutExtractTablesSkipFailedWrite(tables, i + 1, output_dir,
                 writeFailsAt, afterOpen,
                 IF writeFailsAt = i + 1
                 THEN [acc EXCEPT !.tables = Append(@, table_data),
                                  !.written = @ \cup
                                      (IF afterOpen
                                       THEN {TableFile(output_dir, i)}
                                       ELSE {}),
                                  !.failures = failures \cup {"write"}]
                 ELSE [acc EXCEPT
                         !.tables = Append(@, table_data @@
                                      [file_path |-> TableFile(output_dir, i)]),
                         !.written = @ \cup {TableFile(output_dir, i)},
                         !.failures = failures])

(* Lines 331-347: the loop over docling_document.tables from index i on.   *)
(* Each table is extracted, dumped to table_<i>.json and then given its    *)
(* file_path; the first write that fails ends the loop with the exception. *)
(* The failure is that of open() (no file is created) or, afterOpen, that  *)
(* of json.dump or of closing the file: the file exists then, with part of *)
(* the JSON text. written holds the files the call created.                *)
(* acc = [tables, written, failures, raised].                              *)
RECURSIVE ExtractTables(_, _, _, _, _, _)
ExtractTables(tables, i, output_dir, writeFailsAt, afterOpen, acc) ==
    IF i = Len(tables) THEN acc
    ELSE LET table == tables[i + 1]
             content == extract_table_content(table)
             table_data == [id |-> i, page |-> GetAttr(table, "page", 1),
                            content |-> content.value,
                            bbox |-> GetAttr(table, "bbox", None)]
             table_file == TableFile(output_dir, i)
             failures == acc.failures \cup
                         (IF content.failed THEN {"table_content"} ELSE {})
         IN  IF writeFailsAt = i + 1
             THEN [acc EXCEPT !.written = @ \cup (IF afterOpen
                                                  THEN {table_file} ELSE {}),
                              !.failures = failures \cup {"write"},
                              !.raised = TRUE]
             ELSE ExtractTables(tables, i + 1, output_dir, writeFailsAt,
                      afterOpen,
                      [acc EXCEPT
                         !.tables = Append(@, table_data @@
                                        [file_path |-> table_file]),
                         !.written = @ \cup {table_file},
                         !.failures = failures])

(* Lines 350-366: the entry of image i. The file_path is recorded when the *)
(* image has data; nothing is written to it.                               *)
ExtractImage(image, i, output_dir) ==
    LET image_data == [id |-> i, page |-> GetAttr(image, "page", 1),
                       bbox |-> GetAttr(image, "bbox", None),
                       format |-> GetAttr(image, "format", "unknown")]
    IN  IF HasAttr(image, "data")
        THEN image_data @@ [file_path |-> ImageFile(output_dir, i)]
        ELSE image_data

(* Lines 319-328: the entry of section i. *)
ExtractSection(section, i) ==
    [id |-> i,
     title |-> GetAttr(section, "title", "Section " \o ToString(i + 1)),
     content |-> GetAttr(section, "text", ""),
     level |-> GetAttr(section, "level", 1),
     page |-> GetAttr(section, "page", 1)]

(* The fallback to the Markdown left out. *)
MutRawTextNoFallback(doc, markdown_content) == GetAttr(doc, "text", "")

(* Line 313: the document's text, or the exported Markdown when the text   *)
(* is missing or empty.                                                    *)
RawText(doc, markdown_content) ==
    StrOr(GetAttr(doc, "text", ""), markdown_content)

(* _extract_document_structure: walk the document the engine returned and  *)
(* assemble the DocumentStructure. env.chunking is what chunker.chunk does *)
(* if it is invoked, env.writeFailsAt the table write that fails (0: none) *)
(* and env.afterOpen whether it fails after open() created the file.       *)
(* Any exception but a chunking or table-content one is re-raised.         *)
(* The outcome is [raised, failures, written, structure].                  *)
extract_document_structure(flag, chk, doc, file, output_dir, env) ==
    LET title == StrOr(GetAttr(doc, "title", ""), file.stem)
        noTables == [tables |-> <<>>, written |-> {}, failures |-> {},
                     raised |-> FALSE]
    IN
    IF doc.markdown = Raises
    THEN [raised |-> TRUE, failures |-> {"export_markdown"}, written |-> {},
          structure |-> NoResult]
    ELSE
    LET markdown_content == doc.markdown
        raw_text == RawText(doc, markdown_content)
        total_pages == IF HasAttr(doc, "pages") THEN Len(doc.pages) ELSE 1
        sections == IF HasAttr(doc, "sections")
                    THEN [i \in 1..Len(doc.sections) |->
                             ExtractSection(doc.sections[i], i - 1)]
                    ELSE <<>>
        t == IF HasAttr(doc, "tables")
             THEN ExtractTables(doc.tables, 0, output_dir, env.writeFailsAt,
                                env.afterOpen, noTables)
             ELSE noTables
        images == IF HasAttr(doc, "images")
                  THEN [i \in 1..Len(doc.images) |->
                           ExtractImage(doc.images[i], i - 1, output_dir)]
                  ELSE <<>>
        chunked == chk /\ markdown_content # ""
        chunks_count == IF chunked /\ ~env.chunking.raises
                        THEN env.chunking.count ELSE 0
        failures == t.failures \cup
                    (IF chunked /\ env.chunking.raises THEN {"chunking"}
                     ELSE {})
    IN
    IF t.raised
    THEN [raised |-> TRUE, failures |-> t.failures, written |-> t.written,
          structure |-> NoResult]
    ELSE [raised |-> FALSE, failures |-> failures, written |-> t.written,
          structure |->
            [title |-> title, authors |-> <<>>, sections |-> sections,
             tables |-> t.tables, images |-> images, formulas |-> <<>>,
             raw_text |-> raw_text, markdown_content |-> markdown_content,
             metadata |->
               [original_file |-> file.path,
                total_pages |-> total_pages,
                sections_count |-> Len(sections),
                tables_count |-> Len(t.tables),
                images_count |-> Len(images),
                chunks_count |-> chunks_count,
                has_ocr_content |-> flag,
                extraction_method |-> "docling_v2",
                content_length |-> Len(raw_text)],
             processing_stats |-> NoAttrs]]

----------------------------------------------------------------------------
(* process_document *)

(* The size check left out. *)
MutValidateNoSizeCheck(cfg, file) ==
    IF ~file.exists THEN "FileNotFoundError" ELSE "ok"

(* Lines 249-257: the exception the validation raises, or "ok". *)
Validate(cfg, file) ==
    IF ~file.exists THEN "FileNotFoundError"
    ELSE IF file.size > cfg.max_file_size_mb * 1024 * 1024 THEN "ValueError"
    ELSE "ok"

(* What one call is observed to do: its inputs, the exception it raised or *)
(* "ok", the steps that raised inside it, the initializers it entered, the *)
(* mode of the handle convert() was invoked on ("none": not invoked), the  *)
(* files it wrote and the DocumentStructure it returned.                   *)
Observation(use_ocr, file, conv, flag, outcome, failures, e, convertedOn, document, written, result) ==
    [use_ocr |-> use_ocr, file |-> file,
     pre |-> [converter |-> conv, ocr_initialized |-> flag],
     outcome |-> outcome, failures |-> failures,
     installs |-> e.installs, baseCalls |-> e.baseCalls,
     ocrCalls |-> e.ocrCalls, ocrFailed |-> e.ocrFailed,
     convertedOn |-> convertedOn, document |-> document,
     written |-> written, result |-> result]

NoInit == [installs |-> 0, baseCalls |-> 0, ocrCalls |-> 0,
           ocrFailed |-> FALSE]

(* process_document, the whole call: validation, the conditional           *)
(* re-initialization of the handle, convert() on self.converter, the       *)
(* extraction and the processing_stats block; every exception is logged    *)
(* and re-raised. env gives the environment's part: ocrFails / baseFails   *)
(* (a DocumentConverter construction raises), conversion (convert raises,  *)
(* or the document it returns), chunking, writeFailsAt.                    *)
(* The outcome is the processor's fields after the call and the            *)
(* observation obs of the call; obs.convertedOn is the mode of the handle  *)
(* convert() was invoked on, "none" if it was not invoked.                 *)
process_document(conv, flag, chk, cfg, file, output_dir, use_ocr, langs, env, who) ==
    LET valid == Validate(cfg, file)
        e == EnsureConverter(conv, flag, use_ocr, env.ocrFails,
                             env.baseFails, who)
        x == extract_document_structure(e.ocr_initialized, chk,
                 env.conversion.document, file, output_dir, env)
        stats == [file_size_bytes |-> file.size, ocr_used |-> use_ocr,
                  ocr_languages |-> IF use_ocr THEN langs ELSE None,
                  docling_version |-> "2.0+"]
    IN
    IF valid # "ok"
    THEN [converter |-> conv, ocr_initialized |-> flag,
          obs |-> Observation(use_ocr, file, conv, flag, valid,
                      {"validation"}, NoInit, "none", NoAttrs, {}, NoResult)]
    ELSE IF e.raised
    THEN [converter |-> e.converter, ocr_initialized |-> e.ocr_initialized,
          obs |-> Observation(use_ocr, file, conv, flag, "InitError",
                      {"handle_construction"}, e, "none", NoAttrs, {},
                      NoResult)]
    ELSE IF env.conversion.raises
    THEN [converter |-> e.converter, ocr_initialized |-> e.ocr_initialized,
          obs |-> Observation(use_ocr, file, conv, flag, "ConversionError",
                      {"conversion"}, e, e.converter.mode, NoAttrs, {},
                      NoResult)]
    ELSE IF x.raised
    THEN [converter |-> e.converter, ocr_initialized |-> e.ocr_initialized,
          obs |-> Observation(use_ocr, file, conv, flag, "ExtractionError",
                      x.failures, e, e.converter.mode,
                      env.conversion.document, x.written, NoResult)]
    ELSE [converter |-> e.converter, ocr_initialized |-> e.ocr_initialized,
          obs |-> Observation(use_ocr, file, conv, flag, "ok",
                      x.failures, e, e.converter.mode,
                      env.conversion.document, x.written,
                      [x.structure EXCEPT !.processing_stats = stats])]

----------------------------------------------------------------------------
(* Inputs *)

SeqsUpTo(S, n) == UNION {[1..k -> S] : k \in 0..n}

(* The input files: a missing path, and an existing file at, and one byte  *)
(* above, the configured ceiling.                                          *)
Files(cfg) ==
    {[path |-> "in/missing.pdf", stem |-> "missing", exists |-> FALSE]} \cup
    {[path |-> "in/doc.pdf", stem |-> "doc", exists |-> TRUE, size |-> n] :
        n \in {cfg.max_file_size_mb * 1024 * 1024,
               cfg.max_file_size_mb * 1024 * 1024 + 1}}

Configs == {[max_file_size_mb |-> m] : m \in {1, max_file_size_mb_default}}

OcrLanguages == {"eng", "rus"}
OutputDir == "out"

(* Tables of the returned document: one with data, rows, columns, page and *)
(* bbox, one with no such attributes, one whose attribute access raises.   *)
TableKinds ==
    {[access |-> "ok", repr |-> "<Table>", data |-> "cells", rows |-> 2,
      columns |-> 3, page |-> 2, bbox |-> "l=0,t=0,r=10,b=20"],
     [access |-> "ok", repr |-> "<Table>"],
     [access |-> Raises, repr |-> "<Table>"]}

ImageKinds ==
    {[data |-> "bytes", page |-> 2, format |-> "png",
      bbox |-> "l=1,t=2,r=3,b=4"],
     NoAttrs}

(* Title, pages and sections of the returned document: all absent, or all *)
(* present (one section with no attributes, one with every attribute).     *)
Layouts ==
    {NoAttrs,
     [title |-> "Ti", pages |-> <<"p1", "p2">>,
      sections |-> <<NoAttrs,
                     [title |-> "S", text |-> "ab", level |-> 2, page |-> 3]>>]}

(* What export_to_markdown() of the returned document does: it raises, or  *)
(* returns an empty or a non-empty string.                                 *)
Markdowns == {Raises, "", "# Ti"}

Texts == Opt("text", {"", "ab"})
TableLists == Opt("tables", SeqsUpTo(TableKinds, MaxTables))
ImageLists == Opt("images", SeqsUpTo(ImageKinds, MaxImages))

(* The document convert() returns, from its parts. *)
Document(markdown, layout, text, tables, images) ==
    [markdown |-> markdown] @@ layout @@ text @@ tables @@ images

NumTables(tables) == IF HasAttr(tables, "tables") THEN Len(tables.tables) ELSE 0

Chunkings == {[raises |-> TRUE, count |-> 0]} \cup
             {[raises |-> FALSE, count |-> n] : n \in 1..MaxChunks}
NoChunking == [raises |-> FALSE, count |-> 0]

(* What happens once convert() is invoked: it raises, or it returns a      *)
(* document, and then chunking and the table writes behave as given.       *)
ConvertRaises ==
    [conversion |-> [raises |-> TRUE], chunking |-> NoChunking,
     writeFailsAt |-> 0, afterOpen |-> FALSE]
Returns(doc, chunking, writeFailsAt, afterOpen) ==
    [conversion |-> [raises |-> FALSE, document |-> doc],
     chunking |-> chunking, writeFailsAt |-> writeFailsAt,
     afterOpen |-> afterOpen]

(* A plain document, for the calls whose subject is the handle. *)
PlainDoc == [markdown |-> "# Ti", text |-> "ab"]
PlainConversions == {ConvertRaises, Returns(PlainDoc, NoChunking, 0, FALSE)}

(* S if the environment is asked, else the one answer nobody reads. *)
Asked(cond, S, unread) == IF cond THEN S ELSE {unread}

----------------------------------------------------------------------------
(* The sequential processor: one caller, one call at a time *)

NoFile == [path |-> "", stem |-> "", exists |-> FALSE]
NoCall ==
    Observation(FALSE, NoFile, Handle("base", Ctor), FALSE, "none", {},
                NoInit, "none", NoAttrs, {}, NoResult)

NoHistory ==
    [calls |-> 0,              \* process_document calls made
     prev_use_ocr |-> FALSE,   \* use_ocr of the previous call (base at first)
     inits |-> 0,              \* handles installed after construction
     toggles |-> 0,            \* calls whose use_ocr differed from the previous
     toggled |-> FALSE,        \* the last call was one of those
     allOk |-> TRUE,           \* every call so far returned
     noInitFailure |-> TRUE]   \* no handle construction failed so far

IdleThreads == <<>>
NoDir == [exists |-> FALSE, entries |-> <<>>]
NoCleanup == [done |-> FALSE, keep_main_files |-> TRUE, before |-> {},
              raised |-> FALSE, warned |-> FALSE]
NoStructure ==
    [title |-> "", authors |-> <<>>, sections |-> <<>>, tables |-> <<>>,
     markdown_content |-> ""]
NoExport == [done |-> FALSE, structure |-> NoStructure, outcome |-> "none",
             returned |-> "", file |-> NoAttr]

OthersIdle ==
    /\ threads = IdleThreads
    /\ dir = NoDir
    /\ cleanup = NoCleanup
    /\ export = NoExport

(* __init__: no chunker, ocr_initialized False, the base converter built.  *)
Init ==
    /\ config \in Configs
    /\ converter = Handle("base", Ctor)
    /\ ocr_initialized = FALSE
    /\ chunker = FALSE
    /\ hist = NoHistory
    /\ last = NoCall
    /\ OthersIdle

Record(h, obs) ==
    [calls |-> h.calls + 1,
     prev_use_ocr |-> obs.use_ocr,
     inits |-> h.inits + obs.installs,
     toggles |-> h.toggles + (IF obs.use_ocr # h.prev_use_ocr THEN 1 ELSE 0),
     toggled |-> obs.use_ocr # h.prev_use_ocr,
     allOk |-> h.allOk /\ obs.outcome = "ok",
     noInitFailure |-> h.noInitFailure /\ obs.outcome # "InitError"]

(* Whether the call gets as far as constructing a handle / invoking        *)
(* convert(): the environment's answers are drawn only where asked for.    *)
AttemptsOcrInit(file, use_ocr) ==
    Validate(config, file) = "ok" /\ use_ocr /\ ~ocr_initialized
AttemptsBaseInit(file, use_ocr, ocrFails) ==
    /\ Validate(config, file) = "ok"
    /\ \/ ~use_ocr /\ ocr_initialized
       \/ use_ocr /\ ~ocr_initialized /\ ocrFails
InvokesConvert(file, use_ocr, ocrFails, baseFails) ==
    /\ Validate(config, file) = "ok"
    /\ ~EnsureConverter(converter, ocr_initialized, use_ocr, ocrFails,
                        baseFails, Caller).raised

(* One process_document call by the caller; c is what convert() does. *)
Call(file, use_ocr, langs, ocrFails, baseFails, c) ==
    LET env == [ocrFails |-> ocrFails, baseFails |-> baseFails,
                conversion |-> c.conversion, chunking |-> c.chunking,
                writeFailsAt |-> c.writeFailsAt, afterOpen |-> c.afterOpen]
    IN  \E r \in {process_document(converter, ocr_initialized, chunker, config,
                 file, OutputDir, use_ocr, langs, env, Caller)} :
        /\ converter' = r.converter
        /\ ocr_initialized' = r.ocr_initialized
        /\ last' = r.obs
        /\ hist' = Record(hist, r.obs)
        /\ UNCHANGED <<config, chunker, threads, dir, cleanup, export>>

ProcessDocument ==
    /\ hist.calls < MaxCalls
    /\ \E file \in Files(config), use_ocr \in BOOLEAN, langs \in OcrLanguages :
       \E ocrFails \in Asked(AttemptsOcrInit(file, use_ocr), BOOLEAN, FALSE) :
       \E baseFails \in Asked(AttemptsBaseInit(file, use_ocr, ocrFails),
                              BOOLEAN, FALSE) :
       \E c \in Asked(InvokesConvert(file, use_ocr, ocrFails, baseFails),
                      PlainConversions, ConvertRaises) :
           Call(file, use_ocr, langs, ocrFails, baseFails, c)

(* _initialize_chunker: returns at once when transformers is unavailable;  *)
(* otherwise installs a HybridChunker, or None if its construction raises. *)
initialize_chunker ==
    /\ \E outcome \in {"unavailable", "ok", "raises"} :
          chunker' = IF outcome = "unavailable" THEN chunker
                     ELSE outcome = "ok"
    /\ UNCHANGED <<config, converter, ocr_initialized, hist, last,
                   threads, dir, cleanup, export>>

Next == ProcessDocument \/ initialize_chunker

Spec == Init /\ [][Next]_vars

----------------------------------------------------------------------------
(* One call on any document, from each state the processor can be in      *)

(* The handle and flag a sequence of calls can leave behind: as built, *)
(* after an OCR call, and after an OCR call followed by a base call.   *)
ProcessorStates ==
    {[converter |-> Handle("base", Ctor), ocr_initialized |-> FALSE],
     [converter |-> Handle("ocr", Caller), ocr_initialized |-> TRUE],
     [converter |-> Handle("base", Caller), ocr_initialized |-> TRUE]}

InitExtract ==
    /\ config = [max_file_size_mb |-> max_file_size_mb_default]
    /\ \E p \in ProcessorStates :
          /\ converter = p.converter
          /\ ocr_initialized = p.ocr_initialized
    /\ chunker = FALSE
    /\ hist = NoHistory
    /\ last = NoCall
    /\ OthersIdle

(* One call, convert() returning any of the documents (or raising). The  *)
(* chunker is asked only when one is installed and the Markdown is         *)
(* non-empty.                                                              *)
ProcessAnyDocument ==
    /\ hist.calls = 0
    /\ \E file \in Files(config), use_ocr \in BOOLEAN, langs \in OcrLanguages :
       \E ocrFails \in Asked(AttemptsOcrInit(file, use_ocr), BOOLEAN, FALSE) :
       \E baseFails \in Asked(AttemptsBaseInit(file, use_ocr, ocrFails),
                              BOOLEAN, FALSE) :
       LET invoked == InvokesConvert(file, use_ocr, ocrFails, baseFails) IN
       \E raises \in Asked(invoked, BOOLEAN, TRUE) :
       \E markdown \in Asked(~raises, Markdowns, Raises) :
       \E layout \in Asked(~raises, Layouts, NoAttrs) :
       \E text \in Asked(~raises, Texts, NoAttrs) :
       \E tables \in Asked(~raises, TableLists, NoAttrs) :
       \E images \in Asked(~raises, ImageLists, NoAttrs) :
       \E chunking \in Asked(~raises /\ chunker /\ markdown \notin {Raises, ""},
                             Chunkings, NoChunking) :
       \E writeFailsAt \in 0..NumTables(tables) :
       \E afterOpen \in Asked(writeFailsAt > 0, BOOLEAN, FALSE) :
           Call(file, use_ocr, langs, ocrFails, baseFails,
                IF raises THEN ConvertRaises
                ELSE Returns(Document(markdown, layout, text, tables, images),
                             chunking, writeFailsAt, afterOpen))

InitializeChunkerFirst ==
    /\ hist.calls = 0
    /\ initialize_chunker

NextExtract == ProcessAnyDocument \/ InitializeChunkerFirst

SpecExtract == InitExtract /\ [][NextExtract]_vars

----------------------------------------------------------------------------
(* Properties of the sequential processor (Spec) *)

Requested(use_ocr) == IF use_ocr THEN "ocr" ELSE "base"
Called == last.outcome # "none"
Ceiling == config.max_file_size_mb * 1024 * 1024

(* C1: in a sequence of calls in which no handle construction failed, the  *)
(* handle convert() is invoked on is in the mode the call requested: "ocr" *)
(* when use_ocr, "base" when not.                                          *)
C1_ConvertsOnRequestedMode ==
    (Called /\ hist.noInitFailure /\ last.convertedOn # "none")
        => last.convertedOn = Requested(last.use_ocr)

(* C2: over successful calls, a call installs a handle exactly when its    *)
(* use_ocr differs from the previous call's (the constructor's base mode   *)
(* at first), so the handles installed after construction number the mode  *)
(* toggles.                                                                *)
C2_RebuiltOncePerToggle ==
    (Called /\ hist.allOk)
        => /\ last.installs = (IF hist.toggled THEN 1 ELSE 0)
           /\ hist.inits = hist.toggles

(* C3: validation precedes all work. A missing path raises                 *)
(* FileNotFoundError, an existing file above the ceiling raises ValueError *)
(* (a file at the ceiling passes), and in both cases no initializer is     *)
(* entered, convert() is not invoked and handle and flag are as before.    *)
C3_ValidationPrecedesWork ==
    Called =>
        /\ ~last.file.exists => last.outcome = "FileNotFoundError"
        /\ (last.file.exists /\ last.file.size > Ceiling)
              => last.outcome = "ValueError"
        /\ (last.file.exists /\ last.file.size <= Ceiling)
              => last.outcome \notin {"FileNotFoundError", "ValueError"}
        /\ last.outcome \in {"FileNotFoundError", "ValueError"}
              => /\ last.installs = 0
                 /\ last.baseCalls = 0
                 /\ last.ocrCalls = 0
                 /\ last.convertedOn = "none"
                 /\ converter = last.pre.converter
                 /\ ocr_initialized = last.pre.ocr_initialized

(* OCR was requested of a processor without an OCR handle, the file was    *)
(* too large, and the call left the processor alone.                       *)
C3_Witness ==
    /\ last.outcome = "ValueError"
    /\ last.use_ocr
    /\ ~last.pre.ocr_initialized
    /\ hist.calls > 1

(* C4: when OCR is requested and the construction of the OCR handle fails, *)
(* the base initializer is run, the call raises without invoking           *)
(* convert(), and afterwards the handle is in base mode (a fresh one       *)
(* whenever the handle was replaced) and ocr_initialized is what it was,   *)
(* False: the next OCR request initializes again.                          *)
C4_OcrFailureFallsBack ==
    last.ocrFailed =>
        /\ last.use_ocr
        /\ last.baseCalls = 1
        /\ last.outcome = "InitError"
        /\ last.convertedOn = "none"
        /\ converter.mode = "base"
        /\ last.installs = 1 => converter = Handle("base", Caller)
        /\ ocr_initialized = last.pre.ocr_initialized
        /\ ~ocr_initialized

(* The OCR construction failed and the base handle was rebuilt. *)
C4_Witness ==
    /\ last.ocrFailed
    /\ last.installs = 1
    /\ last.outcome = "InitError"

(* C11: between calls of one caller, whenever ocr_initialized is False the *)
(* handle is in base mode; and a call with use_ocr = False that gets as    *)
(* far as convert() invokes it on a base handle, whatever calls came       *)
(* before, failed ones included.                                           *)
C11_BaseCallNeverConvertsOnOcr ==
    /\ ~ocr_initialized => converter.mode = "base"
    /\ (Called /\ ~last.use_ocr /\ last.convertedOn # "none")
          => last.convertedOn = "base"

(* After a handle construction failed in an earlier call and an OCR handle *)
(* was installed since, a call without OCR switched back and converted on  *)
(* the base handle it built.                                               *)
C11_Witness ==
    /\ ~hist.noInitFailure
    /\ ~last.use_ocr
    /\ last.pre.converter.mode = "ocr"
    /\ last.pre.ocr_initialized
    /\ last.installs = 1
    /\ last.convertedOn = "base"

(* C12: in every returned DocumentStructure metadata.has_ocr_content       *)
(* equals processing_stats.ocr_used, and processing_stats.ocr_languages is *)
(* None exactly when ocr_used is False, after any sequence of calls.       *)
C12_OcrFieldsAgree ==
    (Called /\ last.outcome = "ok") =>
        LET s == last.result IN
        /\ s.metadata.has_ocr_content = s.processing_stats.ocr_used
        /\ (s.processing_stats.ocr_languages = None)
              <=> ~s.processing_stats.ocr_used

----------------------------------------------------------------------------
(* Properties of one call on any document (SpecExtract) *)

Returned == last.outcome = "ok"
Propagated ==
    {"validation", "handle_construction", "conversion", "export_markdown",
     "write"}

(* C5, as claimed: a DocumentStructure is returned only if no step of the  *)
(* call failed: validation, handle construction, conversion, table-content *)
(* extraction, chunking, artifact writing.                                 *)
C5_NoFailureSwallowed ==
    Returned => last.failures = {}

(* C5, amended: a failure of validation, handle construction, conversion,  *)
(* Markdown export or artifact writing is raised to the caller and is the  *)
(* only way a call raises; a chunking failure is swallowed and leaves      *)
(* chunks_count = 0, a table-content failure is swallowed and leaves an    *)
(* error entry as the content of a table.                                  *)
C5_OnlyChunkingAndTableContentSwallowed ==
    Called =>
        /\ Returned => last.failures \subseteq {"table_content", "chunking"}
        /\ ~Returned => last.failures \cap Propagated # {}
        /\ (Returned /\ "chunking" \in last.failures)
              => last.result.metadata.chunks_count = 0
        /\ (Returned /\ "table_content" \in last.failures)
              => \E i \in 1..Len(last.result.tables) :
                    "error" \in DOMAIN last.result.tables[i].content

(* A structure was returned although chunking and a table's content        *)
(* extraction both failed.                                                 *)
C5_Witness ==
    /\ Returned
    /\ last.failures = {"table_content", "chunking"}

(* C6: in a returned structure every table and image entry with a          *)
(* file_path names the side file of its index, table_<i>.json or           *)
(* image_<i>.png in the output directory, written during the call; and     *)
(* tables_count and images_count are the numbers of entries.               *)
C6_SideFilesWritten ==
    Returned =>
        LET s == last.result IN
        /\ \A i \in 1..Len(s.tables) :
              "file_path" \in DOMAIN s.tables[i] =>
                 /\ s.tables[i].file_path =
                       OutputDir \o "/table_" \o ToString(i - 1) \o ".json"
                 /\ s.tables[i].file_path \in last.written
        /\ \A i \in 1..Len(s.images) :
              "file_path" \in DOMAIN s.images[i] =>
                 /\ s.images[i].file_path =
                       OutputDir \o "/image_" \o ToString(i - 1) \o ".png"
                 /\ s.images[i].file_path \in last.written
        /\ s.metadata.tables_count = Len(s.tables)
        /\ s.metadata.images_count = Len(s.images)

(* C9: in a returned structure content_length is the length of raw_text,   *)
(* and raw_text is the document's text attribute when that is non-empty    *)
(* and the exported Markdown otherwise.                                    *)
C9_ContentLengthIsRawTextLength ==
    Returned =>
        LET s == last.result
            d == last.document
        IN  /\ s.metadata.content_length = Len(s.raw_text)
            /\ s.markdown_content = d.markdown
            /\ s.raw_text = (IF HasAttr(d, "text") /\ d.text # ""
                             THEN d.text ELSE d.markdown)

(* A structure whose raw_text is the Markdown, the text being empty. *)
C9_Witness ==
    /\ Returned
    /\ HasAttr(last.document, "text")
    /\ last.document.text = ""
    /\ last.result.raw_text = "# Ti"
    /\ last.result.metadata.content_length = 4

----------------------------------------------------------------------------
(* cleanup_temp_files *)

(* pathlib's PurePath.suffix: the name from its last dot on, unless that   *)
(* dot is the first or the last character or there is none.                *)
RECURSIVE RFind(_, _, _)
RFind(name, ch, i) ==
    IF i = 0 THEN 0
    ELSE IF SubSeq(name, i, i) = ch THEN i
    ELSE RFind(name, ch, i - 1)

Suffix(name) ==
    LET i == RFind(name, ".", Len(name))
    IN  IF 1 < i /\ i < Len(name) THEN SubSeq(name, i, Len(name)) ELSE ""

KeepSuffixes == {".md", ".json"}

(* The entries a directory may hold: files and subdirectories. Path.unlink *)
(* removes a file and raises on a directory.                               *)
DirEntries ==
    {[name |-> "doc.md", kind |-> "file"],
     [name |-> "table_0.json", kind |-> "file"],
     [name |-> "image_0.png", kind |-> "file"],
     [name |-> "NOTES.MD", kind |-> "file"],
     [name |-> "pages", kind |-> "dir"],
     [name |-> "cache.json", kind |-> "dir"]}

(* A directory listing: distinct entries, in the order glob("*") yields    *)
(* them, which is the file system's.                                       *)
Listings ==
    {q \in SeqsUpTo(DirEntries, MaxEntries) :
        \A i, j \in 1..Len(q) : i # j => q[i] # q[j]}

UnlinkRaises(entry) == entry.kind = "dir"

(* Lines 490-493: the loop from entry i on. A kept entry is skipped, any   *)
(* other is unlinked; the first unlink that raises ends the loop.          *)
(* Gives [remaining, raised]: the entries left and whether unlink raised.  *)
RECURSIVE CleanupLoop(_, _, _, _)
CleanupLoop(entries, i, keep_main_files, removed) ==
    IF i > Len(entries)
    THEN [removed |-> removed, raised |-> FALSE]
    ELSE IF keep_main_files /\ Suffix(entries[i].name) \in KeepSuffixes
    THEN CleanupLoop(entries, i + 1, keep_main_files, removed)
    ELSE IF UnlinkRaises(entries[i])
    THEN [removed |-> removed, raised |-> TRUE]
    ELSE CleanupLoop(entries, i + 1, keep_main_files,
                     removed \cup {entries[i]})

Remaining(entries, removed) ==
    SelectSeq(entries, LAMBDA e : e \notin removed)

(* cleanup_temp_files: nothing for a path that does not exist; otherwise   *)
(* the loop, inside a try whose handler logs a warning. It never raises.   *)
cleanup_temp_files ==
    /\ ~cleanup.done
    /\ \E keep_main_files \in BOOLEAN :
          LET r == IF dir.exists
                   THEN CleanupLoop(dir.entries, 1, keep_main_files, {})
                   ELSE [removed |-> {}, raised |-> FALSE]
          IN  /\ dir' = [dir EXCEPT !.entries = Remaining(@, r.removed)]
              /\ cleanup' = [done |-> TRUE,
                             keep_main_files |-> keep_main_files,
                             before |-> {dir.entries[i] :
                                           i \in 1..Len(dir.entries)},
                             raised |-> FALSE,
                             warned |-> r.raised]
    /\ UNCHANGED <<config, converter, ocr_initialized, chunker, hist, last,
                   threads, export>>

InitCleanup ==
    /\ config = [max_file_size_mb |-> max_file_size_mb_default]
    /\ converter = Handle("base", Ctor)
    /\ ocr_initialized = FALSE
    /\ chunker = FALSE
    /\ hist = NoHistory
    /\ last = NoCall
    /\ threads = IdleThreads
    /\ dir \in {NoDir} \cup {[exists |-> TRUE, entries |-> q] : q \in Listings}
    /\ cleanup = NoCleanup
    /\ export = NoExport

NextCleanup == cleanup_temp_files

SpecCleanup == InitCleanup /\ [][NextCleanup]_vars

After == {dir.entries[i] : i \in 1..Len(dir.entries)}

(* C7: after cleanup_temp_files(dir, keep_main_files=True) every entry     *)
(* with suffix .md or .json is still there, every other file is gone,      *)
(* whatever else the directory holds, and the call did not raise.          *)
C7_KeepsMainRemovesOthers ==
    (cleanup.done /\ cleanup.keep_main_files) =>
        /\ ~cleanup.raised
        /\ \A e \in cleanup.before :
              Suffix(e.name) \in KeepSuffixes => e \in After
        /\ \A e \in cleanup.before :
              (e.kind = "file" /\ Suffix(e.name) \notin KeepSuffixes)
                 => e \notin After

----------------------------------------------------------------------------
(* export_to_markdown, _create_markdown_from_structure *)

(* "\n".join(lines), ", ".join(authors) *)
RECURSIVE Join(_, _)
Join(sep, lines) ==
    IF Len(lines) = 0 THEN ""
    ELSE IF Len(lines) = 1 THEN lines[1]
    ELSE lines[1] \o sep \o Join(sep, Tail(lines))

(* "#" * n *)
RECURSIVE Repeat(_, _)
Repeat(str, n) == IF n <= 0 THEN "" ELSE str \o Repeat(str, n - 1)

Min(a, b) == IF a <= b THEN a ELSE b

RECURSIVE Flatten(_)
Flatten(seqs) ==
    IF Len(seqs) = 0 THEN <<>> ELSE Head(seqs) \o Flatten(Tail(seqs))

(* The heading with one "#" too many. *)
MutTitleLinesSecondLevel(document_structure) ==
    IF document_structure.title # ""
    THEN <<"## " \o document_structure.title \o "\n">>
    ELSE <<>>

(* Lines 461-462: the document's title as a top-level heading. *)
TitleLines(document_structure) ==
    IF document_structure.title # ""
    THEN <<"# " \o document_structure.title \o "\n">>
    ELSE <<>>

(* Lines 465-466 *)
AuthorLines(document_structure) ==
    IF Len(document_structure.authors) > 0
    THEN <<"**Authors:** " \o Join(", ", document_structure.authors) \o "\n">>
    ELSE <<>>

(* Lines 469-472: a heading of level min(level + 1, 6) and the content. *)
SectionLines(section) ==
    <<Repeat("#", Min(GetAttr(section, "level", 1) + 1, 6)) \o " "
         \o GetAttr(section, "title", "Untitled Section") \o "\n",
      GetAttr(section, "content", "") \o "\n">>

(* Lines 477-481 *)
TableLines(table, i) ==
    <<"### Table " \o ToString(i + 1) \o "\n",
      "Page: " \o (IF HasAttr(table, "page") THEN ToString(table.page)
                   ELSE "N/A") \o "\n">>
    \o (IF HasAttr(table, "file_path") /\ table.file_path # ""
        THEN <<"Data file: " \o table.file_path \o "\n">>
        ELSE <<>>)

(* _create_markdown_from_structure *)
create_markdown_from_structure(document_structure) ==
    LET sections == document_structure.sections
        tables == document_structure.tables
    IN  Join("\n",
            TitleLines(document_structure)
            \o AuthorLines(document_structure)
            \o Flatten([i \in 1..Len(sections) |-> SectionLines(sections[i])])
            \o (IF Len(tables) > 0
                THEN <<"## Tables\n">>
                     \o Flatten([i \in 1..Len(tables) |->
                                    TableLines(tables[i], i - 1)])
                ELSE <<>>))

(* The content export_to_markdown writes and returns (lines 438-443). *)
MarkdownToExport(document_structure) ==
    IF document_structure.markdown_content # ""
    THEN document_structure.markdown_content
    ELSE create_markdown_from_structure(document_structure)

(* The structures handed to export_to_markdown. A section or table dict    *)
(* may lack any key; a level may exceed 5.                                 *)
SectionDicts ==
    {NoAttrs,
     [title |-> "S", content |-> "ab", level |-> 1, page |-> 1],
     [title |-> "S", content |-> "", level |-> 7, page |-> 1]}
TableDicts ==
    {NoAttrs, [page |-> 2, file_path |-> "out/table_0.json"], [page |-> 1]}

Structures ==
    [title : {"", "Ti"},
     authors : {<<>>, <<"Ann", "Bo">>},
     sections : SeqsUpTo(SectionDicts, MaxSections),
     tables : SeqsUpTo(TableDicts, MaxTables),
     markdown_content : {"", "text"}]

(* output_file before the call: absent, or a file with content. *)
OutputFiles == {NoAttr, "old content"}

(* export_to_markdown: the content is written to output_file (text mode,   *)
(* UTF-8; on POSIX the text is stored as it is) and returned; a failure is *)
(* logged and re-raised. When open() fails the file is as it was before.   *)
(* When the write or the closing of the file fails, open() has created or  *)
(* truncated the file and it holds the first n characters of the content,  *)
(* 0 <= n <= Len(content).                                                 *)
export_to_markdown ==
    /\ ~export.done
    /\ LET markdown_content == MarkdownToExport(export.structure) IN
       \E fails \in {"none", "open", "write"} :
       \E n \in Asked(fails = "write", 0..Len(markdown_content), 0) :
          export' =
             IF fails = "open"
             THEN [export EXCEPT !.done = TRUE, !.outcome = "OSError"]
             ELSE IF fails = "write"
             THEN [export EXCEPT !.done = TRUE, !.outcome = "OSError",
                                 !.file = SubSeq(markdown_content, 1, n)]
             ELSE [export EXCEPT !.done = TRUE, !.outcome = "ok",
                                 !.file = markdown_content,
                                 !.returned = markdown_content]
    /\ UNCHANGED <<config, converter, ocr_initialized, chunker, hist, last,
                   threads, dir, cleanup>>

InitExport ==
    /\ config = [max_file_size_mb |-> max_file_size_mb_default]
    /\ converter = Handle("base", Ctor)
    /\ ocr_initialized = FALSE
    /\ chunker = FALSE
    /\ hist = NoHistory
    /\ last = NoCall
    /\ threads = IdleThreads
    /\ dir = NoDir
    /\ cleanup = NoCleanup
    /\ \E document_structure \in Structures, file \in OutputFiles :
          export = [NoExport EXCEPT !.structure = document_structure,
                                    !.file = file]

NextExport == export_to_markdown

SpecExport == InitExport /\ [][NextExport]_vars

StartsWith(str, prefix) ==
    Len(str) >= Len(prefix) /\ SubSeq(str, 1, Len(prefix)) = prefix

(* C8: export_to_markdown writes to the file exactly the string it         *)
(* returns: the structure's markdown_content when that is non-empty,       *)
(* otherwise synthesized Markdown, which for a non-empty title is          *)
(* non-empty and begins with the heading "# <title>".                      *)
C8_ExportWritesWhatItReturns ==
    (export.done /\ export.outcome = "ok") =>
        LET d == export.structure IN
        /\ export.file = export.returned
        /\ d.markdown_content # "" => export.returned = d.markdown_content
        /\ (d.markdown_content = "" /\ d.title # "")
              => /\ export.returned # ""
                 /\ StartsWith(export.returned, "# " \o d.title \o "\n")

(* Markdown synthesized for a titled structure with sections and tables. *)
C8_Witness ==
    /\ export.done
    /\ export.outcome = "ok"
    /\ export.structure.markdown_content = ""
    /\ export.structure.title = "Ti"
    /\ Len(export.structure.sections) = 2
    /\ Len(export.structure.tables) = 2
    /\ export.file = export.returned

----------------------------------------------------------------------------
(* Concurrent process_document calls on one processor, no locking *)

Threads == {"t1", "t2"}
NoHandle == Handle("none", "nobody")

(* A call about to start: its arguments and its locals. handle is the      *)
(* converter convert() was invoked on, has_ocr_content what the extraction *)
(* read from self.ocr_initialized.                                         *)
Starting(use_ocr, file) ==
    [pc |-> "start", use_ocr |-> use_ocr, file |-> file, handle |-> NoHandle,
     has_ocr_content |-> FALSE]

InitConcurrent ==
    /\ config = [max_file_size_mb |-> max_file_size_mb_default]
    /\ converter = BaseHandle(Ctor)
    /\ ocr_initialized = FALSE
    /\ chunker = FALSE
    /\ hist = NoHistory
    /\ last = NoCall
    /\ threads \in [Threads -> {Starting(u, f) : u \in BOOLEAN,
                                                f \in Files(config)}]
    /\ dir = NoDir
    /\ cleanup = NoCleanup
    /\ export = NoExport

At(t, pc) == threads[t].pc = pc
Goto(t, pc) == threads' = [threads EXCEPT ![t].pc = pc]
ProcessorUnchanged == UNCHANGED <<converter, ocr_initialized>>
RestUnchanged == UNCHANGED <<config, chunker, hist, last, dir, cleanup, export>>

(* Lines 249-257 *)
TValidate(t) ==
    /\ At(t, "start")
    /\ Goto(t, IF Validate(config, threads[t].file) = "ok" THEN "check"
               ELSE "raised")
    /\ ProcessorUnchanged /\ RestUnchanged

(* Lines 260 and 263: the one read of self.ocr_initialized. *)
TCheck(t) ==
    /\ At(t, "check")
    /\ Goto(t, IF threads[t].use_ocr /\ ~ocr_initialized THEN "build_ocr"
               ELSE IF ~threads[t].use_ocr /\ ocr_initialized THEN "build_base"
               ELSE "convert")
    /\ ProcessorUnchanged /\ RestUnchanged

(* Lines 174-186: the OCR converter is built and stored, or raises. *)
TBuildOcr(t) ==
    /\ At(t, "build_ocr")
    /\ \E fails \in BOOLEAN :
          /\ converter' = IF fails THEN converter ELSE OcrHandle(t)
          /\ Goto(t, IF fails THEN "fallback" ELSE "set_flag")
    /\ UNCHANGED ocr_initialized /\ RestUnchanged

(* Line 188 *)
TSetFlag(t) ==
    /\ At(t, "set_flag")
    /\ ocr_initialized' = TRUE
    /\ Goto(t, "convert")
    /\ UNCHANGED converter /\ RestUnchanged

(* Lines 191-195: the fallback to the base converter, then the re-raise. *)
TFallback(t) ==
    /\ At(t, "fallback")
    /\ \E fails \in BOOLEAN :
          converter' = IF fails THEN converter ELSE BaseHandle(t)
    /\ Goto(t, "raised")
    /\ UNCHANGED ocr_initialized /\ RestUnchanged

(* Line 265: the base converter is built and stored, or raises. *)
TBuildBase(t) ==
    /\ At(t, "build_base")
    /\ \E fails \in BOOLEAN :
          /\ converter' = IF fails THEN converter ELSE BaseHandle(t)
          /\ Goto(t, IF fails THEN "raised" ELSE "convert")
    /\ UNCHANGED ocr_initialized /\ RestUnchanged

(* Line 269: self.converter is read and convert() invoked on it. *)
TConvert(t) ==
    /\ At(t, "convert")
    /\ \E raises \in BOOLEAN :
          threads' = [threads EXCEPT
                        ![t].handle = converter,
                        ![t].pc = IF raises THEN "raised" ELSE "extract"]
    /\ ProcessorUnchanged /\ RestUnchanged

(* Lines 273-289: the extraction, which reads self.ocr_initialized (line   *)
(* 394), and the return.                                                   *)
TExtract(t) ==
    /\ At(t, "extract")
    /\ \E raises \in BOOLEAN :
          threads' = [threads EXCEPT
                        ![t].has_ocr_content = ocr_initialized,
                        ![t].pc = IF raises THEN "raised" ELSE "done"]
    /\ ProcessorUnchanged /\ RestUnchanged

NextConcurrent ==
    \E t \in Threads :
        \/ TValidate(t)
        \/ TCheck(t)
        \/ TBuildOcr(t)
        \/ TSetFlag(t)
        \/ TFallback(t)
        \/ TBuildBase(t)
        \/ TConvert(t)
        \/ TExtract(t)

SpecConcurrent == InitConcurrent /\ [][NextConcurrent]_vars

Mismatched(t) ==
    threads[t].handle.mode \notin {"none", Requested(threads[t].use_ocr)}

(* C10: with two concurrent calls on a fresh processor, a call invokes     *)
(* convert() on a handle of another mode than it requested only when that  *)
(* handle was installed by the other call, never by itself or by the       *)
(* constructor; and with different use_ocr values such an interleaving     *)
(* exists (C10_Race).                                                      *)
C10_MismatchIsTheOtherCallsHandle ==
    \A t \in Threads :
        Mismatched(t) => threads[t].handle.by \in Threads \ {t}

(* A call converted on the handle the other call installed, in the mode    *)
(* it did not request.                                                     *)
C10_Race ==
    \E t \in Threads : \E u \in Threads \ {t} :
        /\ threads[t].use_ocr # threads[u].use_ocr
        /\ threads[t].pc \in {"extract", "done"}
        /\ threads[t].handle.by = u
        /\ threads[t].handle.mode # Requested(threads[t].use_ocr)

====
